---- MODULE Spec2Model ----
(***************************************************************************)
(* A model of four parts of the zinc toolchain:                            *)
(*   - the VM instruction handlers StoreSequence and ConditionalSelect     *)
(*     (zinc-vm/src/instructions/memory/store_array.rs,                    *)
(*      zinc/src/instructions/builtins/cs.rs),                             *)
(*   - the interpreter's value algebra (interpreter/src/element/value),    *)
(*   - the let statement parser (zinc-compiler/src/syntax/parser),         *)
(*   - the semantic analysis of a conditional expression                   *)
(*     (zinc-compiler/src/semantic).                                       *)
(* Each part has its own specification; the variables of the other parts   *)
(* stay at their idle values.                                              *)
(***************************************************************************)
EXTENDS Integers, Sequences, FiniteSets, TLC

VARIABLES
    stack,      \* the VM's data stack, top of the stack last
    memory,     \* the VM's memory: address -> value or Absent
    status,     \* "Running", or the RuntimeError that ended the run
    last,       \* the instruction executed last, with the state it started in
    cs,         \* the constraint system the value operations are handed
    call,       \* the value operation called last, with the system it was handed
    result,     \* what that call returned
    state,      \* the let parser's state (self.state)
    builder,    \* the let statement builder (self.builder)
    next,       \* the let parser's lookahead token (self.next)
    initial,    \* the token the caller handed to parse, if any
    stream,     \* the tokens read from the token stream so far, in order
    examined,   \* the tokens matched so far by the parser or its sub-parsers
    outcome,    \* what parse returned, once it has returned
    program,    \* the conditional expression of the entry point being compiled
    compiled    \* what compile_entry_point returned, once it has returned

vmVars == <<stack, memory, status, last>>

valueVars == <<cs, call, result>>

letVars == <<state, builder, next, initial, stream, examined, outcome>>

semVars == <<program, compiled>>

vars == <<vmVars, valueVars, letVars, semVars>>

(***************************************************************************)
(* Bounds of the model.                                                    *)
(***************************************************************************)
FieldSize == 2      \* stack values are 0 .. FieldSize-1
MaxStack == 3       \* deepest data stack explored
MemSize == 2        \* memory addresses are 0 .. MemSize-1
MaxCalls == 1       \* value operations called in one run

\* The absence marker of a memory cell: no stack value.
Absent == 0 - 1
FieldValues == 0 .. (FieldSize - 1)
Addresses == 0 .. (MemSize - 1)

(***************************************************************************)
(* The VM: data stack and memory.                                          *)
(***************************************************************************)
Top(stk) == stk[Len(stk)]

Pop(stk) == SubSeq(stk, 1, Len(stk) - 1)

Push(stk, value) == Append(stk, value)

Store(mem, address, value) == [mem EXCEPT ![address] = value]

NoInstruction == [op |-> "None", address |-> 0, len |-> 0,
                  stack0 |-> <<>>, memory0 |-> [a \in Addresses |-> Absent],
                  writes |-> <<>>]

\* StoreSequence::execute with the write index counted up from the base.
RECURSIVE StoreSequenceAscending(_, _, _, _, _)
StoreSequenceAscending(address, len, i, stk, mem) ==
    IF i >= len
    THEN [stack |-> stk, memory |-> mem, result |-> "Ok", writes |-> <<>>]
    ELSE IF stk = <<>>
         THEN [stack |-> stk, memory |-> mem, result |-> "StackUnderflow",
               writes |-> <<>>]
         ELSE LET r == StoreSequenceAscending(address, len, i + 1, Pop(stk),
                                              Store(mem, address + i, Top(stk)))
              IN  [r EXCEPT !.writes = <<address + i>> \o @]

\* StoreSequence::execute with the loop index left out of the write index.
RECURSIVE StoreSequenceFixedIndex(_, _, _, _, _)
StoreSequenceFixedIndex(address, len, i, stk, mem) ==
    IF i >= len
    THEN [stack |-> stk, memory |-> mem, result |-> "Ok", writes |-> <<>>]
    ELSE IF stk = <<>>
         THEN [stack |-> stk, memory |-> mem, result |-> "StackUnderflow",
               writes |-> <<>>]
         ELSE LET r == StoreSequenceFixedIndex(address, len, i + 1, Pop(stk),
                           Store(mem, (address + len) - 1, Top(stk)))
              IN  [r EXCEPT !.writes = <<(address + len) - 1>> \o @]

\* StoreSequence::execute that checks the depth of the stack before each
\* pop: on a stack too short for the rest of the sequence it fails with the
\* stack and the memory as they are.
RECURSIVE StoreSequenceChecked(_, _, _, _, _)
StoreSequenceChecked(address, len, i, stk, mem) ==
    IF i >= len
    THEN [stack |-> stk, memory |-> mem, result |-> "Ok", writes |-> <<>>]
    ELSE IF Len(stk) < len - i
         THEN [stack |-> stk, memory |-> mem, result |-> "StackUnderflow",
               writes |-> <<>>]
         ELSE LET r == StoreSequenceChecked(address, len, i + 1, Pop(stk),
                           Store(mem, (address + len) - i - 1, Top(stk)))
              IN  [r EXCEPT !.writes = <<(address + len) - i - 1>> \o @]

\* StoreSequence::execute: for i in 0..len { pop; store(address+len-i-1) }.
\* A failing pop returns its error at once; `writes` lists the addresses
\* handed to vm.store, in the order of the calls.
RECURSIVE StoreSequenceLoop(_, _, _, _, _)
StoreSequenceLoop(address, len, i, stk, mem) ==
    IF i >= len
    THEN [stack |-> stk, memory |-> mem, result |-> "Ok", writes |-> <<>>]
    ELSE IF stk = <<>>
         THEN [stack |-> stk, memory |-> mem, result |-> "StackUnderflow",
               writes |-> <<>>]
         ELSE LET r == StoreSequenceLoop(address, len, i + 1, Pop(stk),
                           Store(mem, (address + len) - i - 1, Top(stk)))
              IN  [r EXCEPT !.writes = <<(address + len) - i - 1>> \o @]

\* The operator's conditional_select: c*t + (1-c)*f over the field.
ConditionalSelectGadget(condition, if_true, if_false) ==
    (condition * if_true + (1 - condition) * if_false) % FieldSize

\* ConditionalSelect::execute with the two value operands taken in the
\* opposite order.
ConditionalSelectSwapped(stk) ==
    IF Len(stk) < 3
    THEN [stack |-> <<>>, result |-> "StackUnderflow"]
    ELSE LET condition == stk[Len(stk)]
             if_false == stk[Len(stk) - 1]
             if_true == stk[Len(stk) - 2]
             rest == SubSeq(stk, 1, Len(stk) - 3)
         IN  [stack |-> Push(rest, ConditionalSelectGadget(condition, if_true, if_false)),
              result |-> "Ok"]

\* ConditionalSelect::execute that reads the if_false operand without
\* removing it from the stack.
ConditionalSelectPeek(stk) ==
    IF Len(stk) < 3
    THEN [stack |-> <<>>, result |-> "StackUnderflow"]
    ELSE LET condition == stk[Len(stk)]
             if_true == stk[Len(stk) - 1]
             if_false == stk[Len(stk) - 2]
             rest == SubSeq(stk, 1, Len(stk) - 2)
         IN  [stack |-> Push(rest, ConditionalSelectGadget(condition, if_true, if_false)),
              result |-> "Ok"]

\* ConditionalSelect::execute: three pops, the select, one push.  A failing
\* pop ends the handler with the values popped so far removed.
ConditionalSelectExecute(stk) ==
    IF Len(stk) < 3
    THEN [stack |-> <<>>, result |-> "StackUnderflow"]
    ELSE LET condition == stk[Len(stk)]
             if_true == stk[Len(stk) - 1]
             if_false == stk[Len(stk) - 2]
             rest == SubSeq(stk, 1, Len(stk) - 3)
         IN  [stack |-> Push(rest, ConditionalSelectGadget(condition, if_true, if_false)),
              result |-> "Ok"]

StatusOf(res) == IF res = "Ok" THEN "Running" ELSE res

InitVM ==
    /\ stack = <<>>
    /\ memory = [a \in Addresses |-> Absent]
    /\ status = "Running"
    /\ last = NoInstruction

\* The VM at rest, while another part of the toolchain runs.
IdleVM == InitVM

PushConst(value) ==
    /\ status = "Running"
    /\ Len(stack) < MaxStack
    /\ stack' = Push(stack, value)
    /\ last' = [op |-> "PushConst", address |-> 0, len |-> 0,
                stack0 |-> stack, memory0 |-> memory, writes |-> <<>>]
    /\ UNCHANGED <<memory, status, valueVars, letVars, semVars>>

StoreSequence(address, len) ==
    /\ status = "Running"
    /\ LET r == StoreSequenceLoop(address, len, 0, stack, memory)
       IN  /\ stack' = r.stack
           /\ memory' = r.memory
           /\ status' = StatusOf(r.result)
           /\ last' = [op |-> "StoreSequence", address |-> address,
                       len |-> len, stack0 |-> stack, memory0 |-> memory,
                       writes |-> r.writes]
    /\ UNCHANGED <<valueVars, letVars, semVars>>

ConditionalSelect ==
    /\ status = "Running"
    /\ LET r == ConditionalSelectExecute(stack)
       IN  /\ stack' = r.stack
           /\ status' = StatusOf(r.result)
    /\ last' = [op |-> "ConditionalSelect", address |-> 0, len |-> 0,
                stack0 |-> stack, memory0 |-> memory, writes |-> <<>>]
    /\ UNCHANGED <<memory, valueVars, letVars, semVars>>

NextVM ==
    \/ \E value \in FieldValues : PushConst(value)
    \/ \E address \in Addresses : \E len \in 0 .. (MemSize - address) :
           StoreSequence(address, len)
    \/ ConditionalSelect

(***************************************************************************)
(* Properties of the VM handlers.                                          *)
(***************************************************************************)
Depth0 == Len(last.stack0)

\* The i-th value popped by the last instruction, i = 0 for the top.
Popped(i) == last.stack0[Depth0 - i]

\* C1: StoreSequence(address, len) on a stack of at least len values
\* succeeds, removes exactly the top len values and writes the i-th popped
\* value to address+len-1-i, so that the values pushed in the order
\* v0..v(len-1) lie at address..address+len-1 in that order.
C1_StoreSequenceOrder ==
    (last.op = "StoreSequence" /\ Depth0 >= last.len) =>
        /\ status = "Running"
        /\ stack = SubSeq(last.stack0, 1, Depth0 - last.len)
        /\ \A i \in 0 .. (last.len - 1) :
               memory[last.address + last.len - 1 - i] = Popped(i)
        /\ \A j \in 0 .. (last.len - 1) :
               memory[last.address + j] = last.stack0[Depth0 - last.len + 1 + j]

C1_Witness ==
    /\ last.op = "StoreSequence"
    /\ last.len >= 2
    /\ Depth0 >= last.len
    /\ Popped(0) # Popped(1)
    /\ memory[last.address + last.len - 1] = Popped(0)
    /\ memory[last.address + last.len - 2] = Popped(1)

\* C2: ConditionalSelect takes the condition from the top of the stack,
\* if_true from below it and if_false from below that, and replaces the
\* three by the selected value: if_true for condition 1, if_false for
\* condition 0.
C2_SelectEquivalence ==
    (last.op = "ConditionalSelect" /\ Depth0 >= 3) =>
        /\ status = "Running"
        /\ Pop(stack) = SubSeq(last.stack0, 1, Depth0 - 3)
        /\ Popped(0) = 1 => Top(stack) = Popped(1)
        /\ Popped(0) = 0 => Top(stack) = Popped(2)

C2_Witness ==
    /\ last.op = "ConditionalSelect"
    /\ Depth0 >= 3
    /\ Popped(0) = 0
    /\ Popped(1) # Popped(2)
    /\ Top(stack) = Popped(2)

\* C3: the stack depth change of a handler is fixed by the instruction:
\* a successful StoreSequence(address, len) lowers the depth by len and a
\* successful ConditionalSelect lowers it by 2, whatever the values are.
C3_StaticDepthChange ==
    /\ (last.op = "StoreSequence" /\ status = "Running") =>
           Len(stack) = Depth0 - last.len
    /\ (last.op = "ConditionalSelect" /\ status = "Running") =>
           Len(stack) = Depth0 - 2

C3_Witness ==
    /\ last.op = "ConditionalSelect"
    /\ status = "Running"
    /\ Popped(0) = 1
    /\ Len(stack) = Depth0 - 2
    /\ \E a \in Addresses : memory[a] # Absent

(***************************************************************************)
(* The value algebra: values, results and the constraint system.           *)
(***************************************************************************)
Unit == [kind |-> "Unit", inner |-> [unit |-> TRUE]]

Boolean(b) == [kind |-> "Boolean", inner |-> [value |-> b]]

Integer(bitlength, is_signed, value) ==
    [kind |-> "Integer",
     inner |-> [bitlength |-> bitlength, is_signed |-> is_signed, value |-> value]]

Array(elements) == [kind |-> "Array", inner |-> [elements |-> elements]]

Tuple(elements) == [kind |-> "Tuple", inner |-> [elements |-> elements]]

Structure(fields) == [kind |-> "Structure", inner |-> [fields |-> fields]]

Enumeration(index) == [kind |-> "Enumeration", inner |-> [index |-> index]]

\* The place of the missing operand of a unary operation.
NoOperand == [kind |-> "None", inner |-> [none |-> TRUE]]

\* The operands the operations are tried on.
Values ==
    { Unit, Boolean(TRUE), Boolean(FALSE),
      Integer(8, FALSE, 0), Integer(8, FALSE, 1), Integer(8, FALSE, 255),
      Integer(16, FALSE, 1), Integer(8, TRUE, 1),
      Array(<<Integer(8, FALSE, 0)>>), Array(<<Integer(8, FALSE, 1)>>),
      Tuple(<<Integer(8, FALSE, 1), Boolean(TRUE)>>),
      Structure(<<[name |-> "a", value |-> Boolean(FALSE)]>>),
      Enumeration(0) }

TypeUnit == [t |-> "unit"]

TypeBoolean == [t |-> "boolean"]

TypeInteger(bitlength, is_signed) ==
    [t |-> "integer", bitlength |-> bitlength, is_signed |-> is_signed]

\* The type variants cast is tried with.
CastTargets == { TypeInteger(8, FALSE), TypeInteger(16, FALSE), TypeBoolean }

\* Value::type_variant.
RECURSIVE TypeVariant(_)
TypeVariant(v) ==
    CASE v.kind = "Unit" -> TypeUnit
      [] v.kind = "Boolean" -> TypeBoolean
      [] v.kind = "Integer" -> TypeInteger(v.inner.bitlength, v.inner.is_signed)
      [] v.kind = "Array" ->
            [t |-> "array", element |-> TypeVariant(v.inner.elements[1]),
             size |-> Len(v.inner.elements)]
      [] v.kind = "Tuple" ->
            [t |-> "tuple",
             elements |-> [i \in DOMAIN v.inner.elements |->
                               TypeVariant(v.inner.elements[i])]]
      [] v.kind = "Structure" ->
            [t |-> "structure",
             fields |-> [i \in DOMAIN v.inner.fields |->
                             [name |-> v.inner.fields[i].name,
                              type |-> TypeVariant(v.inner.fields[i].value)]]]
      [] v.kind = "Enumeration" -> TypeInteger(8, FALSE)

\* has_the_same_type_as of the Integer, Array, Tuple and Structure inside a
\* value: the two have one structural type.
InnerHasTheSameTypeAs(value_1, value_2) == TypeVariant(value_1) = TypeVariant(value_2)

\* Value::has_the_same_type_as: one arm for each pair of equal variants from
\* Unit to Structure, and false for every other pair.
HasTheSameTypeAs(self, other) ==
    CASE self.kind = "Unit" /\ other.kind = "Unit" -> TRUE
      [] self.kind = "Boolean" /\ other.kind = "Boolean" -> TRUE
      [] self.kind = "Integer" /\ other.kind = "Integer" ->
            InnerHasTheSameTypeAs(self, other)
      [] self.kind = "Array" /\ other.kind = "Array" ->
            InnerHasTheSameTypeAs(self, other)
      [] self.kind = "Tuple" /\ other.kind = "Tuple" ->
            InnerHasTheSameTypeAs(self, other)
      [] self.kind = "Structure" /\ other.kind = "Structure" ->
            InnerHasTheSameTypeAs(self, other)
      [] OTHER -> FALSE

\* The constraint system: the namespaces entered so far, in order, and the
\* numbers of allocated variables and of enforced constraints.
EmptySystem == [namespaces |-> <<>>, variables |-> 0, constraints |-> 0]

\* A system that earlier work of the caller has already written to.
UsedSystem == [namespaces |-> <<"main">>, variables |-> 2, constraints |-> 1]

\* system.namespace(|| label)
Namespace(system, label) ==
    [system EXCEPT !.namespaces = Append(@, label)]

Ok(value) == [tag |-> "Ok", value |-> value]

ErrExpectedBoolean(operation, value) ==
    [tag |-> "Err", error |-> "ExpectedBoolean", operation |-> operation,
     operands |-> <<value>>]

ErrExpectedInteger(operation, value) ==
    [tag |-> "Err", error |-> "ExpectedInteger", operation |-> operation,
     operands |-> <<value>>]

ErrOperandTypesMismatch(value_1, value_2) ==
    [tag |-> "Err", error |-> "OperandTypesMismatch", operation |-> "",
     operands |-> <<value_1, value_2>>]

\* Error::Boolean(inner) and Error::Integer(inner).
ErrInner(kind, inner) ==
    [tag |-> "Err", error |-> kind, operation |-> inner, operands |-> <<>>]

\* A return that leaves the constraint system as it was handed in.
Return(system, res) == [result |-> res, system |-> system]

RECURSIVE Pow2(_)
Pow2(n) == IF n = 0 THEN 1 ELSE 2 * Pow2(n - 1)

MinOf(bitlength, is_signed) == IF is_signed THEN 0 - Pow2(bitlength - 1) ELSE 0

MaxOf(bitlength, is_signed) ==
    IF is_signed THEN Pow2(bitlength - 1) - 1 ELSE Pow2(bitlength) - 1

Abs(n) == IF n < 0 THEN 0 - n ELSE n

\* Division truncating toward zero.
TruncDiv(a, b) ==
    IF (a < 0) = (b < 0) THEN Abs(a) \div Abs(b) ELSE 0 - (Abs(a) \div Abs(b))

\* What a gadget hands back: the inner value or an error, and the variables
\* and constraints it added under its namespace.
GadgetOk(out, variables, constraints) ==
    [ok |-> TRUE, out |-> out, error |-> "", variables |-> variables,
     constraints |-> constraints]

GadgetErr(error, variables) ==
    [ok |-> FALSE, out |-> [none |-> TRUE], error |-> error,
     variables |-> variables, constraints |-> 0]

\* The gadgets of the Boolean type (section 4.2 of the specification).
BooleanGadget(operation, a, b) ==
    CASE operation = "new_from_bool" -> GadgetOk([value |-> a.value], 1, 1)
      [] operation = "not" -> GadgetOk([value |-> ~a.value], 0, 0)
      [] operation = "and" -> GadgetOk([value |-> a.value /\ b.value], 1, 1)
      [] operation = "or" -> GadgetOk([value |-> a.value \/ b.value], 1, 1)
      [] operation = "xor" -> GadgetOk([value |-> a.value # b.value], 1, 2)
      [] operation = "equals" -> GadgetOk([value |-> a.value = b.value], 2, 2)
      [] operation = "not_equals" -> GadgetOk([value |-> a.value # b.value], 2, 2)

\* A checked integer result: an error when v does not fit the type.
Checked(v, bitlength, is_signed, error) ==
    IF v < MinOf(bitlength, is_signed) \/ v > MaxOf(bitlength, is_signed)
    THEN GadgetErr(error, 1)
    ELSE GadgetOk([bitlength |-> bitlength, is_signed |-> is_signed, value |-> v], 1, 1)

\* The gadgets of the Integer type (section 4.2 of the specification):
\* widths and signedness of the operands must match.
IntegerGadget(operation, a, b) ==
    IF a.bitlength # b.bitlength \/ a.is_signed # b.is_signed
    THEN GadgetErr("OperandTypesMismatch", 0)
    ELSE CASE operation = "equals" -> GadgetOk([value |-> a.value = b.value], 2, 2)
           [] operation = "not_equals" -> GadgetOk([value |-> a.value # b.value], 2, 2)
           [] operation = "greater_equals" -> GadgetOk([value |-> a.value >= b.value], 1, 1)
           [] operation = "lesser_equals" -> GadgetOk([value |-> a.value <= b.value], 1, 1)
           [] operation = "greater" -> GadgetOk([value |-> a.value > b.value], 1, 1)
           [] operation = "lesser" -> GadgetOk([value |-> a.value < b.value], 1, 1)
           [] operation = "add" ->
                 Checked(a.value + b.value, a.bitlength, a.is_signed, "Overflow")
           [] operation = "subtract" ->
                 Checked(a.value - b.value, a.bitlength, a.is_signed, "Underflow")
           [] operation = "multiply" ->
                 Checked(a.value * b.value, a.bitlength, a.is_signed, "Overflow")
           [] operation = "divide" ->
                 IF b.value = 0 THEN GadgetErr("DivisionByZero", 0)
                 ELSE Checked(TruncDiv(a.value, b.value), a.bitlength, a.is_signed,
                              "Overflow")
           [] operation = "modulo" ->
                 IF b.value = 0 THEN GadgetErr("DivisionByZero", 0)
                 ELSE Checked(a.value - b.value * TruncDiv(a.value, b.value),
                              a.bitlength, a.is_signed, "Overflow")

\* Integer::negate: defined only for signed integers.
IntegerNegate(a) ==
    IF ~a.is_signed THEN GadgetErr("Negation", 0)
    ELSE Checked(0 - a.value, a.bitlength, a.is_signed, "Overflow")

\* Integer::cast: integer to integer, failing on narrowing out of range.
IntegerCast(a, type_variant) ==
    IF type_variant.t # "integer" THEN GadgetErr("Casting", 0)
    ELSE Checked(a.value, type_variant.bitlength, type_variant.is_signed,
                 "NarrowingOutOfRange")

\* gadget(system.namespace(..), ..).map(Self::kind).map_err(Error::error)
Mapped(system, kind, error, gadget) ==
    [result |-> IF gadget.ok
                THEN Ok([kind |-> kind, inner |-> gadget.out])
                ELSE ErrInner(error, gadget.error),
     system |-> [system EXCEPT !.variables = @ + gadget.variables,
                               !.constraints = @ + gadget.constraints]]

(***************************************************************************)
(* The value algebra: the operations of impl Value.  Each takes the        *)
(* constraint system it is handed and returns the result with the system   *)
(* as the call leaves it.                                                  *)
(***************************************************************************)
\* Value::or entering its namespace before it looks at the operands.
OrNamespaceFirst(system, self, other) ==
    IF self.kind # "Boolean"
    THEN Return(Namespace(system, "value_or"), ErrExpectedBoolean("or", self))
    ELSE IF other.kind # "Boolean"
    THEN Return(Namespace(system, "value_or"), ErrExpectedBoolean("or", other))
    ELSE Mapped(Namespace(system, "value_or"), "Boolean", "Boolean",
                BooleanGadget("or", self.inner, other.inner))

\* Value::or
Or(system, self, other) ==
    IF self.kind # "Boolean" THEN Return(system, ErrExpectedBoolean("or", self))
    ELSE IF other.kind # "Boolean" THEN Return(system, ErrExpectedBoolean("or", other))
    ELSE Mapped(Namespace(system, "value_or"), "Boolean", "Boolean",
                BooleanGadget("or", self.inner, other.inner))

\* Value::xor
Xor(system, self, other) ==
    IF self.kind # "Boolean" THEN Return(system, ErrExpectedBoolean("xor", self))
    ELSE IF other.kind # "Boolean" THEN Return(system, ErrExpectedBoolean("xor", other))
    ELSE Mapped(Namespace(system, "value_xor"), "Boolean", "Boolean",
                BooleanGadget("xor", self.inner, other.inner))

\* Value::and
And(system, self, other) ==
    IF self.kind # "Boolean" THEN Return(system, ErrExpectedBoolean("and", self))
    ELSE IF other.kind # "Boolean" THEN Return(system, ErrExpectedBoolean("and", other))
    ELSE Mapped(Namespace(system, "value_and"), "Boolean", "Boolean",
                BooleanGadget("and", self.inner, other.inner))

\* Value::equals comparing aggregates of one structural type element-wise.
EqualsStructural(system, self, other) ==
    IF self.kind = "Unit" /\ other.kind = "Unit"
    THEN Mapped(Namespace(system, "value_equals"), "Boolean", "Boolean",
                BooleanGadget("new_from_bool", [value |-> TRUE], [value |-> TRUE]))
    ELSE IF self.kind = "Boolean" /\ other.kind = "Boolean"
    THEN Mapped(Namespace(system, "value_equals"), "Boolean", "Boolean",
                BooleanGadget("equals", self.inner, other.inner))
    ELSE IF self.kind = "Boolean"
    THEN Return(system, ErrExpectedBoolean("equals", other))
    ELSE IF self.kind = "Integer" /\ other.kind = "Integer"
    THEN Mapped(Namespace(system, "value_equals"), "Boolean", "Integer",
                IntegerGadget("equals", self.inner, other.inner))
    ELSE IF self.kind = "Integer"
    THEN Return(system, ErrExpectedInteger("equals", other))
    ELSE IF self.kind \in {"Array", "Tuple", "Structure"}
            /\ TypeVariant(self) = TypeVariant(other)
    THEN Mapped(Namespace(system, "value_equals"), "Boolean", "Boolean",
                GadgetOk([value |-> self = other], 1, 1))
    ELSE Return(system, ErrOperandTypesMismatch(self, other))

\* Value::equals answering unit for two units.
EqualsUnitIsUnit(system, self, other) ==
    IF self.kind = "Unit" /\ other.kind = "Unit"
    THEN Return(Namespace(system, "value_equals"), Ok(Unit))
    ELSE IF self.kind = "Boolean" /\ other.kind = "Boolean"
    THEN Mapped(Namespace(system, "value_equals"), "Boolean", "Boolean",
                BooleanGadget("equals", self.inner, other.inner))
    ELSE IF self.kind = "Boolean"
    THEN Return(system, ErrExpectedBoolean("equals", other))
    ELSE IF self.kind = "Integer" /\ other.kind = "Integer"
    THEN Mapped(Namespace(system, "value_equals"), "Boolean", "Integer",
                IntegerGadget("equals", self.inner, other.inner))
    ELSE IF self.kind = "Integer"
    THEN Return(system, ErrExpectedInteger("equals", other))
    ELSE Return(system, ErrOperandTypesMismatch(self, other))

\* Value::equals
Equals(system, self, other) ==
    IF self.kind = "Unit" /\ other.kind = "Unit"
    THEN Mapped(Namespace(system, "value_equals"), "Boolean", "Boolean",
                BooleanGadget("new_from_bool", [value |-> TRUE], [value |-> TRUE]))
    ELSE IF self.kind = "Boolean" /\ other.kind = "Boolean"
    THEN Mapped(Namespace(system, "value_equals"), "Boolean", "Boolean",
                BooleanGadget("equals", self.inner, other.inner))
    ELSE IF self.kind = "Boolean"
    THEN Return(system, ErrExpectedBoolean("equals", other))
    ELSE IF self.kind = "Integer" /\ other.kind = "Integer"
    THEN Mapped(Namespace(system, "value_equals"), "Boolean", "Integer",
                IntegerGadget("equals", self.inner, other.inner))
    ELSE IF self.kind = "Integer"
    THEN Return(system, ErrExpectedInteger("equals", other))
    ELSE Return(system, ErrOperandTypesMismatch(self, other))

\* Value::not_equals reporting the left operand of a mismatched pair.
NotEqualsLeftOperand(system, self, other) ==
    IF self.kind = "Unit" /\ other.kind = "Unit"
    THEN Mapped(Namespace(system, "value_not_equals"), "Boolean", "Boolean",
                BooleanGadget("new_from_bool", [value |-> FALSE], [value |-> FALSE]))
    ELSE IF self.kind = "Boolean" /\ other.kind = "Boolean"
    THEN Mapped(Namespace(system, "value_not_equals"), "Boolean", "Boolean",
                BooleanGadget("not_equals", self.inner, other.inner))
    ELSE IF self.kind = "Boolean"
    THEN Return(system, ErrExpectedBoolean("not_equals", self))
    ELSE IF self.kind = "Integer" /\ other.kind = "Integer"
    THEN Mapped(Namespace(system, "value_not_equals"), "Boolean", "Integer",
                IntegerGadget("not_equals", self.inner, other.inner))
    ELSE IF self.kind = "Integer"
    THEN Return(system, ErrExpectedInteger("not_equals", self))
    ELSE Return(system, ErrOperandTypesMismatch(self, other))

\* Value::not_equals
NotEquals(system, self, other) ==
    IF self.kind = "Unit" /\ other.kind = "Unit"
    THEN Mapped(Namespace(system, "value_not_equals"), "Boolean", "Boolean",
                BooleanGadget("new_from_bool", [value |-> FALSE], [value |-> FALSE]))
    ELSE IF self.kind = "Boolean" /\ other.kind = "Boolean"
    THEN Mapped(Namespace(system, "value_not_equals"), "Boolean", "Boolean",
                BooleanGadget("not_equals", self.inner, other.inner))
    ELSE IF self.kind = "Boolean"
    THEN Return(system, ErrExpectedBoolean("not_equals", other))
    ELSE IF self.kind = "Integer" /\ other.kind = "Integer"
    THEN Mapped(Namespace(system, "value_not_equals"), "Boolean", "Integer",
                IntegerGadget("not_equals", self.inner, other.inner))
    ELSE IF self.kind = "Integer"
    THEN Return(system, ErrExpectedInteger("not_equals", other))
    ELSE Return(system, ErrOperandTypesMismatch(self, other))

\* Value::greater_equals
GreaterEquals(system, self, other) ==
    IF self.kind # "Integer" THEN Return(system, ErrExpectedInteger("greater_equals", self))
    ELSE IF other.kind # "Integer" THEN Return(system, ErrExpectedInteger("greater_equals", other))
    ELSE Mapped(Namespace(system, "value_greater_equals"), "Boolean", "Integer",
                IntegerGadget("greater_equals", self.inner, other.inner))

\* Value::lesser_equals
LesserEquals(system, self, other) ==
    IF self.kind # "Integer" THEN Return(system, ErrExpectedInteger("lesser_equals", self))
    ELSE IF other.kind # "Integer" THEN Return(system, ErrExpectedInteger("lesser_equals", other))
    ELSE Mapped(Namespace(system, "value_lesser_equals"), "Boolean", "Integer",
                IntegerGadget("lesser_equals", self.inner, other.inner))

\* Value::greater
Greater(system, self, other) ==
    IF self.kind # "Integer" THEN Return(system, ErrExpectedInteger("greater", self))
    ELSE IF other.kind # "Integer" THEN Return(system, ErrExpectedInteger("greater", other))
    ELSE Mapped(Namespace(system, "value_greater"), "Boolean", "Integer",
                IntegerGadget("greater", self.inner, other.inner))

\* Value::lesser
Lesser(system, self, other) ==
    IF self.kind # "Integer" THEN Return(system, ErrExpectedInteger("lesser", self))
    ELSE IF other.kind # "Integer" THEN Return(system, ErrExpectedInteger("lesser", other))
    ELSE Mapped(Namespace(system, "value_lesser"), "Boolean", "Integer",
                IntegerGadget("lesser", self.inner, other.inner))

\* Value::add looking at the right operand first.
AddRightFirst(system, self, other) ==
    IF other.kind # "Integer" THEN Return(system, ErrExpectedInteger("add", other))
    ELSE IF self.kind # "Integer" THEN Return(system, ErrExpectedInteger("add", self))
    ELSE Mapped(Namespace(system, "value_add"), "Integer", "Integer",
                IntegerGadget("add", self.inner, other.inner))

\* Value::add
Add(system, self, other) ==
    IF self.kind # "Integer" THEN Return(system, ErrExpectedInteger("add", self))
    ELSE IF other.kind # "Integer" THEN Return(system, ErrExpectedInteger("add", other))
    ELSE Mapped(Namespace(system, "value_add"), "Integer", "Integer",
                IntegerGadget("add", self.inner, other.inner))

\* Value::subtract
Subtract(system, self, other) ==
    IF self.kind # "Integer" THEN Return(system, ErrExpectedInteger("subtract", self))
    ELSE IF other.kind # "Integer" THEN Return(system, ErrExpectedInteger("subtract", other))
    ELSE Mapped(Namespace(system, "value_subtract"), "Integer", "Integer",
                IntegerGadget("subtract", self.inner, other.inner))

\* Value::multiply
Multiply(system, self, other) ==
    IF self.kind # "Integer" THEN Return(system, ErrExpectedInteger("multiply", self))
    ELSE IF other.kind # "Integer" THEN Return(system, ErrExpectedInteger("multiply", other))
    ELSE Mapped(Namespace(system, "value_multiply"), "Integer", "Integer",
                IntegerGadget("multiply", self.inner, other.inner))

\* Value::divide
Divide(system, self, other) ==
    IF self.kind # "Integer" THEN Return(system, ErrExpectedInteger("divide", self))
    ELSE IF other.kind # "Integer" THEN Return(system, ErrExpectedInteger("divide", other))
    ELSE Mapped(Namespace(system, "value_divide"), "Integer", "Integer",
                IntegerGadget("divide", self.inner, other.inner))

\* Value::modulo
Modulo(system, self, other) ==
    IF self.kind # "Integer" THEN Return(system, ErrExpectedInteger("modulo", self))
    ELSE IF other.kind # "Integer" THEN Return(system, ErrExpectedInteger("modulo", other))
    ELSE Mapped(Namespace(system, "value_modulo"), "Integer", "Integer",
                IntegerGadget("modulo", self.inner, other.inner))

\* Value::negate
Negate(system, self) ==
    IF self.kind # "Integer" THEN Return(system, ErrExpectedInteger("negate", self))
    ELSE Mapped(Namespace(system, "value_negate"), "Integer", "Integer",
                IntegerNegate(self.inner))

\* Value::not
Not(system, self) ==
    IF self.kind # "Boolean" THEN Return(system, ErrExpectedBoolean("not", self))
    ELSE Mapped(Namespace(system, "value_not"), "Boolean", "Boolean",
                BooleanGadget("not", self.inner, self.inner))

\* Value::cast
Cast(system, self, type_variant) ==
    IF self.kind # "Integer" THEN Return(system, ErrExpectedInteger("cast", self))
    ELSE Mapped(Namespace(system, "value_cast"), "Integer", "Integer",
                IntegerCast(self.inner, type_variant))

NoCall == [index |-> 0, operation |-> "none", self |-> NoOperand,
           other |-> NoOperand, type_variant |-> TypeUnit, system0 |-> EmptySystem]

InitValue ==
    /\ cs \in {EmptySystem, UsedSystem}
    /\ call = NoCall
    /\ result = Ok(Unit)

\* One call of a value operation: r is what the operation returns.  An
\* error ends the run, so operations are called only while none has failed.
Invoke(operation, self, other, type_variant, r) ==
    /\ result.tag = "Ok"
    /\ call.index < MaxCalls
    /\ cs' = r.system
    /\ result' = r.result
    /\ call' = [index |-> call.index + 1, operation |-> operation, self |-> self,
                other |-> other, type_variant |-> type_variant, system0 |-> cs]
    /\ UNCHANGED <<vmVars, letVars, semVars>>

Binary(operation, self, other, r) == Invoke(operation, self, other, TypeUnit, r)

Unary(operation, self, r) == Invoke(operation, self, NoOperand, TypeUnit, r)

CallOr == \E self, other \in Values : Binary("or", self, other, Or(cs, self, other))

CallXor == \E self, other \in Values : Binary("xor", self, other, Xor(cs, self, other))

CallAnd == \E self, other \in Values : Binary("and", self, other, And(cs, self, other))

CallEquals ==
    \E self, other \in Values : Binary("equals", self, other, Equals(cs, self, other))

CallNotEquals ==
    \E self, other \in Values :
        Binary("not_equals", self, other, NotEquals(cs, self, other))

CallGreaterEquals ==
    \E self, other \in Values :
        Binary("greater_equals", self, other, GreaterEquals(cs, self, other))

CallLesserEquals ==
    \E self, other \in Values :
        Binary("lesser_equals", self, other, LesserEquals(cs, self, other))

CallGreater ==
    \E self, other \in Values : Binary("greater", self, other, Greater(cs, self, other))

CallLesser ==
    \E self, other \in Values : Binary("lesser", self, other, Lesser(cs, self, other))

CallAdd == \E self, other \in Values : Binary("add", self, other, Add(cs, self, other))

CallSubtract ==
    \E self, other \in Values : Binary("subtract", self, other, Subtract(cs, self, other))

CallMultiply ==
    \E self, other \in Values : Binary("multiply", self, other, Multiply(cs, self, other))

CallDivide ==
    \E self, other \in Values : Binary("divide", self, other, Divide(cs, self, other))

CallModulo ==
    \E self, other \in Values : Binary("modulo", self, other, Modulo(cs, self, other))

CallNegate == \E self \in Values : Unary("negate", self, Negate(cs, self))

CallNot == \E self \in Values : Unary("not", self, Not(cs, self))

CallCast ==
    \E self \in Values : \E type_variant \in CastTargets :
        Invoke("cast", self, NoOperand, type_variant, Cast(cs, self, type_variant))

\* self.has_the_same_type_as(other): it returns a bool and leaves the
\* constraint system alone.
CallHasTheSameTypeAs ==
    \E self, other \in Values :
        Binary("has_the_same_type_as", self, other,
               Return(cs, Ok(HasTheSameTypeAs(self, other))))

NextValue ==
    \/ CallOr \/ CallXor \/ CallAnd
    \/ CallEquals \/ CallNotEquals
    \/ CallGreaterEquals \/ CallLesserEquals \/ CallGreater \/ CallLesser
    \/ CallAdd \/ CallSubtract \/ CallMultiply \/ CallDivide \/ CallModulo
    \/ CallNegate \/ CallNot \/ CallCast
    \/ CallHasTheSameTypeAs

\* The value algebra at rest, while another part of the toolchain runs.
IdleValue ==
    /\ cs = EmptySystem
    /\ call = NoCall
    /\ result = Ok(Unit)

(***************************************************************************)
(* Properties of the value algebra.                                        *)
(***************************************************************************)
LogicalOps == {"not", "and", "or", "xor"}

OrderedOps == {"greater", "greater_equals", "lesser", "lesser_equals"}

ArithmeticOps == {"add", "subtract", "multiply", "divide", "modulo", "negate", "cast"}

EqualityOps == {"equals", "not_equals"}

UnaryOps == {"not", "negate", "cast"}

Aggregates == {"Array", "Tuple", "Structure"}

TypeErrors == {"ExpectedBoolean", "ExpectedInteger", "OperandTypesMismatch"}

IsTypeError == result.tag = "Err" /\ result.error \in TypeErrors

\* C4: not/and/or/xor reject a non-Boolean operand with ExpectedBoolean and
\* the integer operations reject a non-Integer operand with ExpectedInteger;
\* the error carries the operation name and the first offending operand,
\* the left operand being looked at before the right one.
C4_KindRestricted ==
    /\ call.operation \in LogicalOps =>
          /\ call.self.kind # "Boolean" =>
                 result = ErrExpectedBoolean(call.operation, call.self)
          /\ (/\ call.self.kind = "Boolean"
              /\ call.operation \notin UnaryOps
              /\ call.other.kind # "Boolean") =>
                 result = ErrExpectedBoolean(call.operation, call.other)
    /\ call.operation \in (OrderedOps \cup ArithmeticOps) =>
          /\ call.self.kind # "Integer" =>
                 result = ErrExpectedInteger(call.operation, call.self)
          /\ (/\ call.self.kind = "Integer"
              /\ call.operation \notin UnaryOps
              /\ call.other.kind # "Integer") =>
                 result = ErrExpectedInteger(call.operation, call.other)

C4_Witness ==
    /\ call.operation = "add"
    /\ call.self.kind = "Boolean"
    /\ call.other.kind = "Unit"
    /\ result = ErrExpectedInteger("add", call.self)

\* C5: equals and not_equals succeed only for (Unit, Unit), (Boolean,
\* Boolean) and (Integer, Integer); a Boolean left operand with another
\* right operand gives ExpectedBoolean carrying the right operand, an
\* Integer left operand with another right operand gives ExpectedInteger
\* carrying the right operand, and every other pair gives
\* OperandTypesMismatch carrying both operands.
C5_EqualityKinds ==
    call.operation \in EqualityOps =>
        LET matching == /\ call.self.kind = call.other.kind
                        /\ call.self.kind \in {"Unit", "Boolean", "Integer"}
        IN  /\ result.tag = "Ok" => matching
            /\ matching => ~IsTypeError
            /\ (call.self.kind = "Boolean" /\ call.other.kind # "Boolean") =>
                   result = ErrExpectedBoolean(call.operation, call.other)
            /\ (call.self.kind = "Integer" /\ call.other.kind # "Integer") =>
                   result = ErrExpectedInteger(call.operation, call.other)
            /\ (~matching /\ call.self.kind \notin {"Boolean", "Integer"}) =>
                   result = ErrOperandTypesMismatch(call.self, call.other)

C5_Witness ==
    /\ call.operation = "not_equals"
    /\ call.self.kind = "Boolean"
    /\ call.other.kind = "Integer"
    /\ result = ErrExpectedBoolean("not_equals", call.other)

\* C6 as stated: equals applied to two arrays, two tuples or two structures
\* of identical structural type succeeds and yields the element-wise,
\* AND-folded boolean.
C6_StructuralEquality ==
    (/\ call.operation = "equals"
     /\ call.self.kind \in Aggregates
     /\ call.other.kind = call.self.kind
     /\ TypeVariant(call.self) = TypeVariant(call.other)) =>
        result = Ok(Boolean(call.self = call.other))

\* C6 as amended: equals applied to an array, a tuple or a structure as its
\* left operand fails with OperandTypesMismatch carrying both operands,
\* whether or not the right operand has the identical structural type.
C6_AggregatesRejected ==
    (call.operation = "equals" /\ call.self.kind \in Aggregates) =>
        result = ErrOperandTypesMismatch(call.self, call.other)

C6_Witness ==
    /\ call.operation = "equals"
    /\ call.self.kind = "Array"
    /\ call.other.kind = "Array"
    /\ call.self # call.other
    /\ TypeVariant(call.self) = TypeVariant(call.other)
    /\ result = ErrOperandTypesMismatch(call.self, call.other)

\* C7: whenever a value operation returns ExpectedBoolean, ExpectedInteger
\* or OperandTypesMismatch, the constraint system is exactly as it was
\* handed in: no namespace entered, no variable allocated, no constraint
\* enforced.
C7_TypeErrorsBeforeEmission ==
    (call.operation # "none" /\ IsTypeError) => cs = call.system0

C7_Witness ==
    /\ call.operation = "or"
    /\ result.tag = "Err"
    /\ result.error = "ExpectedBoolean"
    /\ call.system0 = UsedSystem
    /\ cs = UsedSystem

\* C8: the variant of a successful result is fixed by the operation: the
\* comparisons and the logical operations yield a Boolean, the arithmetic
\* operations and cast yield an Integer, whatever the witness values.
C8_TypePreservation ==
    (call.operation # "none" /\ result.tag = "Ok") =>
        /\ call.operation \in (EqualityOps \cup OrderedOps \cup LogicalOps) =>
               result.value.kind = "Boolean"
        /\ call.operation \in ArithmeticOps => result.value.kind = "Integer"

C8_Witness ==
    /\ call.operation = "equals"
    /\ call.self.kind = "Unit"
    /\ call.other.kind = "Unit"
    /\ result = Ok(Boolean(TRUE))

(***************************************************************************)
(* The let statement parser: tokens, the token stream and the sub-parsers.  *)
(***************************************************************************)
None == [some |-> FALSE]

Some(x) == [some |-> TRUE, value |-> x]

LexLet == [kind |-> "Keyword", text |-> "let"]

LexMut == [kind |-> "Keyword", text |-> "mut"]

LexType == [kind |-> "Keyword", text |-> "u8"]

LexIdentifier(name) == [kind |-> "Identifier", text |-> name]

LexLiteral == [kind |-> "Literal", text |-> "42"]

LexColon == [kind |-> "Symbol", text |-> ":"]

LexEquals == [kind |-> "Symbol", text |-> "="]

LexSemicolon == [kind |-> "Symbol", text |-> ";"]

LexEof == [kind |-> "Eof", text |-> ""]

\* The lexemes the token stream yields.
Lexemes ==
    { LexLet, LexMut, LexType, LexIdentifier("a"), LexIdentifier("b"), LexLiteral,
      LexColon, LexEquals, LexSemicolon, LexEof }

\* Input the lexer rejects: reading it makes the stream return an error.
LexInvalid == [kind |-> "Invalid", text |-> "#"]

\* A token; its location is its place in the input.
Token(lexeme, location) == [lexeme |-> lexeme, location |-> location]

\* TokenStream::next on a stream that has yielded strm so far: the token
\* read (of any lexeme) and the stream after it.
StreamNext(strm) ==
    { [token |-> Token(lexeme, Len(strm) + 1),
       stream |-> Append(strm, Token(lexeme, Len(strm) + 1))] :
          lexeme \in Lexemes \cup {LexInvalid} }

\* take_or_next(option, stream): the token held, or else the next of the stream.
TakeOrNext(option, strm) ==
    IF option.some THEN {[token |-> option.value, stream |-> strm]}
    ELSE StreamNext(strm)

\* The two hints (their example is left out of the text).
HINT_EXPECTED_IDENTIFIER == "variable must have an identifier"

HINT_EXPECTED_VALUE == "variable must be initialized"

Pending == [tag |-> "Pending"]

\* Error::Syntax(SyntaxError::constructor(location, [expected,] lexeme, hint))
SyntaxError(constructor, location, expected, lexeme, hint) ==
    [tag |-> "Err", error |-> "Syntax", constructor |-> constructor,
     location |-> location, expected |-> expected, found |-> lexeme, hint |-> hint]

\* The error of the token stream, passed on by `?`.
LexicalError(location) ==
    [tag |-> "Err", error |-> "Lexical", constructor |-> "", location |-> location,
     expected |-> <<>>, found |-> LexInvalid, hint |-> None]

\* The error of a sub-parser, passed on by `?`.
SubParserError(parser, token) ==
    [tag |-> "Err", error |-> "Syntax", constructor |-> parser,
     location |-> token.location, expected |-> <<>>, found |-> token.lexeme,
     hint |-> None]

Identifier(location, name) == [location |-> location, name |-> name]

Type(location, variant) == [location |-> location, variant |-> variant]

Expression(location, operand) == [location |-> location, operand |-> operand]

IsOperand(lexeme) == lexeme.kind \in {"Literal", "Identifier"}

\* What a sub-parser that read the token first does next: it returns its
\* tree with no lookahead, or reads one more token and hands it back.
WithLookahead(tree, strm) ==
    {[ok |-> TRUE, tree |-> tree, next |-> None, stream |-> strm, error |-> Pending]}
    \cup
    { IF r.token.lexeme = LexInvalid
      THEN [ok |-> FALSE, tree |-> tree, next |-> None, stream |-> r.stream,
            error |-> LexicalError(r.token.location)]
      ELSE [ok |-> TRUE, tree |-> tree, next |-> Some(r.token), stream |-> r.stream,
            error |-> Pending] : r \in StreamNext(strm) }

\* Whether a token of this lexeme starts the construct of the sub-parser.
Fits(parser, lexeme) ==
    IF parser = "type" THEN lexeme = LexType ELSE IsOperand(lexeme)

\* The tree the sub-parser builds of its token.
Tree(parser, token) ==
    IF parser = "type" THEN Type(token.location, token.lexeme.text)
    ELSE Expression(token.location, token.lexeme)

\* What a sub-parser does: it reads its first token from the stream and
\* fails on one that does not start its construct.
SubParser(parser, strm) ==
    UNION { IF r.token.lexeme = LexInvalid
            THEN {[ok |-> FALSE, tree |-> None, next |-> None, stream |-> r.stream,
                   error |-> LexicalError(r.token.location)]}
            ELSE IF Fits(parser, r.token.lexeme)
            THEN WithLookahead(Tree(parser, r.token), r.stream)
            ELSE {[ok |-> FALSE, tree |-> None, next |-> None, stream |-> r.stream,
                   error |-> SubParserError(parser, r.token)]} :
            r \in StreamNext(strm) }

\* The tokens a sub-parser, started on strm, matched itself before it
\* returned r: all it read from the stream but the one it hands back.
ReadBy(r, strm) ==
    SubSeq(r.stream, Len(strm) + 1,
           Len(r.stream) - (IF r.next.some THEN 1 ELSE 0))

\* TypeParser::default().parse(stream, None)
TypeParser(strm) == SubParser("type", strm)

\* ExpressionParser::default().parse(stream, None)
ExpressionParser(strm) == SubParser("expression", strm)

\* LetStatementBuilder::default()
NewBuilder ==
    [location |-> None, identifier |-> None, is_mutable |-> FALSE, type |-> None,
     expression |-> None]

\* LetStatementBuilder::finish: LetStatement::new(location, identifier,
\* is_mutable, type, expression)
Finish(b) ==
    [location |-> b.location.value, identifier |-> b.identifier.value,
     is_mutable |-> b.is_mutable, type |-> b.type, expression |-> b.expression.value]

OkStatement(statement, leftover) ==
    [tag |-> "Ok", statement |-> statement, leftover |-> leftover]

\* Parser::default() at rest, while another part of the toolchain runs.
IdleLet ==
    /\ state = "KeywordLet"
    /\ builder = NewBuilder
    /\ next = None
    /\ initial = None
    /\ stream = <<>>
    /\ examined = <<>>
    /\ outcome = Pending

\* Parser::default().parse(stream, initial): the caller hands over nothing,
\* or the token it has already read from the stream.
InitLet ==
    /\ state = "KeywordLet"
    /\ builder = NewBuilder
    /\ next = None
    /\ \/ initial = None /\ stream = <<>>
       \/ \E lexeme \in Lexemes :
              initial = Some(Token(lexeme, 1)) /\ stream = <<Token(lexeme, 1)>>
    /\ examined = <<>>
    /\ outcome = Pending

(***************************************************************************)
(* The let statement parser: Parser::parse, one action for each arm of     *)
(* the match on self.state, taken once for each turn of the loop.          *)
(***************************************************************************)
\* The arm returns Err(error): the loop ends in the state it is in.
Fail(error) ==
    /\ outcome' = error
    /\ UNCHANGED <<state, builder>>

\* The arm ends with the builder b and self.state = s; the loop goes on.
Continue(b, s) ==
    /\ builder' = b
    /\ state' = s
    /\ UNCHANGED outcome

\* State::KeywordLet
StateKeywordLet ==
    /\ state = "KeywordLet"
    /\ outcome = Pending
    /\ \E r \in TakeOrNext(initial, stream) :
          /\ stream' = r.stream
          /\ examined' = Append(examined, r.token)
          /\ initial' = None
          /\ IF r.token.lexeme = LexInvalid
             THEN Fail(LexicalError(r.token.location))
             ELSE IF r.token.lexeme = LexLet
             THEN Continue([builder EXCEPT !.location = Some(r.token.location)],
                           "MutOrIdentifier")
             ELSE Fail(SyntaxError("expected_one_of", r.token.location, <<"let">>,
                                   r.token.lexeme, None))
    /\ UNCHANGED <<next, vmVars, valueVars, semVars>>

\* State::MutOrIdentifier without the call of set_mutable.
StateMutOrIdentifierUnset ==
    /\ state = "MutOrIdentifier"
    /\ outcome = Pending
    /\ \E r \in TakeOrNext(next, stream) :
          /\ stream' = r.stream
          /\ examined' = Append(examined, r.token)
          /\ next' = None
          /\ IF r.token.lexeme = LexInvalid
             THEN Fail(LexicalError(r.token.location))
             ELSE IF r.token.lexeme = LexMut
             THEN Continue(builder, "Identifier")
             ELSE IF r.token.lexeme.kind = "Identifier"
             THEN Continue([builder EXCEPT !.identifier =
                                Some(Identifier(r.token.location, r.token.lexeme.text))],
                           "ColonOrEquals")
             ELSE Fail(SyntaxError("expected_mut_or_identifier", r.token.location, <<>>,
                                   r.token.lexeme, Some(HINT_EXPECTED_IDENTIFIER)))
    /\ UNCHANGED <<initial, vmVars, valueVars, semVars>>

\* State::MutOrIdentifier
StateMutOrIdentifier ==
    /\ state = "MutOrIdentifier"
    /\ outcome = Pending
    /\ \E r \in TakeOrNext(next, stream) :
          /\ stream' = r.stream
          /\ examined' = Append(examined, r.token)
          /\ next' = None
          /\ IF r.token.lexeme = LexInvalid
             THEN Fail(LexicalError(r.token.location))
             ELSE IF r.token.lexeme = LexMut
             THEN Continue([builder EXCEPT !.is_mutable = TRUE], "Identifier")
             ELSE IF r.token.lexeme.kind = "Identifier"
             THEN Continue([builder EXCEPT !.identifier =
                                Some(Identifier(r.token.location, r.token.lexeme.text))],
                           "ColonOrEquals")
             ELSE Fail(SyntaxError("expected_mut_or_identifier", r.token.location, <<>>,
                                   r.token.lexeme, Some(HINT_EXPECTED_IDENTIFIER)))
    /\ UNCHANGED <<initial, vmVars, valueVars, semVars>>

\* State::Identifier
StateIdentifier ==
    /\ state = "Identifier"
    /\ outcome = Pending
    /\ \E r \in TakeOrNext(next, stream) :
          /\ stream' = r.stream
          /\ examined' = Append(examined, r.token)
          /\ next' = None
          /\ IF r.token.lexeme = LexInvalid
             THEN Fail(LexicalError(r.token.location))
             ELSE IF r.token.lexeme.kind = "Identifier"
             THEN Continue([builder EXCEPT !.identifier =
                                Some(Identifier(r.token.location, r.token.lexeme.text))],
                           "ColonOrEquals")
             ELSE Fail(SyntaxError("expected_identifier", r.token.location, <<>>,
                                   r.token.lexeme, Some(HINT_EXPECTED_IDENTIFIER)))
    /\ UNCHANGED <<initial, vmVars, valueVars, semVars>>

\* State::ColonOrEquals giving the hint of the identifier states.
StateColonOrEqualsIdentifierHint ==
    /\ state = "ColonOrEquals"
    /\ outcome = Pending
    /\ \E r \in TakeOrNext(next, stream) :
          /\ stream' = r.stream
          /\ examined' = Append(examined, r.token)
          /\ next' = None
          /\ IF r.token.lexeme = LexInvalid
             THEN Fail(LexicalError(r.token.location))
             ELSE IF r.token.lexeme = LexColon
             THEN Continue(builder, "Type")
             ELSE IF r.token.lexeme = LexEquals
             THEN Continue(builder, "Expression")
             ELSE Fail(SyntaxError("expected_type_or_value", r.token.location, <<>>,
                                   r.token.lexeme, Some(HINT_EXPECTED_IDENTIFIER)))
    /\ UNCHANGED <<initial, vmVars, valueVars, semVars>>

\* State::ColonOrEquals
StateColonOrEquals ==
    /\ state = "ColonOrEquals"
    /\ outcome = Pending
    /\ \E r \in TakeOrNext(next, stream) :
          /\ stream' = r.stream
          /\ examined' = Append(examined, r.token)
          /\ next' = None
          /\ IF r.token.lexeme = LexInvalid
             THEN Fail(LexicalError(r.token.location))
             ELSE IF r.token.lexeme = LexColon
             THEN Continue(builder, "Type")
             ELSE IF r.token.lexeme = LexEquals
             THEN Continue(builder, "Expression")
             ELSE Fail(SyntaxError("expected_type_or_value", r.token.location, <<>>,
                                   r.token.lexeme, Some(HINT_EXPECTED_VALUE)))
    /\ UNCHANGED <<initial, vmVars, valueVars, semVars>>

\* State::Type that drops the token the type parser hands back.
StateTypeDropsLookahead ==
    /\ state = "Type"
    /\ outcome = Pending
    /\ \E r \in TypeParser(stream) :
          /\ stream' = r.stream
          /\ examined' = examined \o ReadBy(r, stream)
          /\ IF r.ok
             THEN /\ next' = None
                  /\ Continue([builder EXCEPT !.type = Some(r.tree)], "Equals")
             ELSE /\ Fail(r.error)
                  /\ UNCHANGED next
    /\ UNCHANGED <<initial, vmVars, valueVars, semVars>>

\* State::Type
StateType ==
    /\ state = "Type"
    /\ outcome = Pending
    /\ \E r \in TypeParser(stream) :
          /\ stream' = r.stream
          /\ examined' = examined \o ReadBy(r, stream)
          /\ IF r.ok
             THEN /\ next' = r.next
                  /\ Continue([builder EXCEPT !.type = Some(r.tree)], "Equals")
             ELSE /\ Fail(r.error)
                  /\ UNCHANGED next
    /\ UNCHANGED <<initial, vmVars, valueVars, semVars>>

\* State::Equals that leaves self.state as it is on `=`.
StateEqualsStays ==
    /\ state = "Equals"
    /\ outcome = Pending
    /\ \E r \in TakeOrNext(next, stream) :
          /\ stream' = r.stream
          /\ examined' = Append(examined, r.token)
          /\ next' = None
          /\ IF r.token.lexeme = LexInvalid
             THEN Fail(LexicalError(r.token.location))
             ELSE IF r.token.lexeme = LexEquals
             THEN Continue(builder, "Equals")
             ELSE Fail(SyntaxError("expected_value", r.token.location, <<>>,
                                   r.token.lexeme, Some(HINT_EXPECTED_VALUE)))
    /\ UNCHANGED <<initial, vmVars, valueVars, semVars>>

\* State::Equals
StateEquals ==
    /\ state = "Equals"
    /\ outcome = Pending
    /\ \E r \in TakeOrNext(next, stream) :
          /\ stream' = r.stream
          /\ examined' = Append(examined, r.token)
          /\ next' = None
          /\ IF r.token.lexeme = LexInvalid
             THEN Fail(LexicalError(r.token.location))
             ELSE IF r.token.lexeme = LexEquals
             THEN Continue(builder, "Expression")
             ELSE Fail(SyntaxError("expected_value", r.token.location, <<>>,
                                   r.token.lexeme, Some(HINT_EXPECTED_VALUE)))
    /\ UNCHANGED <<initial, vmVars, valueVars, semVars>>

\* State::Expression
StateExpression ==
    /\ state = "Expression"
    /\ outcome = Pending
    /\ \E r \in ExpressionParser(stream) :
          /\ stream' = r.stream
          /\ examined' = examined \o ReadBy(r, stream)
          /\ IF r.ok
             THEN /\ next' = r.next
                  /\ Continue([builder EXCEPT !.expression = Some(r.tree)], "Semicolon")
             ELSE /\ Fail(r.error)
                  /\ UNCHANGED next
    /\ UNCHANGED <<initial, vmVars, valueVars, semVars>>

\* State::Semicolon
StateSemicolon ==
    /\ state = "Semicolon"
    /\ outcome = Pending
    /\ \E r \in TakeOrNext(next, stream) :
          /\ stream' = r.stream
          /\ examined' = Append(examined, r.token)
          /\ next' = None
          /\ IF r.token.lexeme = LexInvalid
             THEN outcome' = LexicalError(r.token.location)
             ELSE IF r.token.lexeme = LexSemicolon
             THEN outcome' = OkStatement(Finish(builder), None)
             ELSE outcome' = SyntaxError("expected_one_of_or_operator", r.token.location,
                                         <<";">>, r.token.lexeme, None)
    /\ UNCHANGED <<state, builder, initial, vmVars, valueVars, semVars>>

NextLet ==
    \/ StateKeywordLet
    \/ StateMutOrIdentifier
    \/ StateIdentifier
    \/ StateColonOrEquals
    \/ StateType
    \/ StateEquals
    \/ StateExpression
    \/ StateSemicolon

(***************************************************************************)
(* The semantic analysis of a conditional expression.  The entry point is  *)
(*     fn main() {                                                         *)
(*         if <condition> { <main> } else { <else> }                       *)
(*     }                                                                   *)
(* with a literal as the condition and as the result of each block.        *)
(***************************************************************************)
BITLENGTH_BYTE == 8

Location(line, column) == [line |-> line, column |-> column]

\* A literal as written in the source text.
LiteralInteger(value) == [kind |-> "integer", value |-> value]

\* true is kept as 1 and false as 0.
LiteralBoolean(value) == [kind |-> "boolean", value |-> IF value THEN 1 ELSE 0]

Literals ==
    {LiteralInteger(7), LiteralInteger(42), LiteralInteger(256),
     LiteralBoolean(TRUE), LiteralBoolean(FALSE)}

\* The number of characters of a literal.
TextLength(literal) ==
    IF literal.kind = "boolean"
    THEN (IF literal.value = 1 THEN 4 ELSE 5)
    ELSE IF literal.value < 10 THEN 1
    ELSE IF literal.value < 100 THEN 2
    ELSE 3

\* Type::integer_unsigned(bitlength) and Type::boolean().
integer_unsigned(bitlength) == [t |-> "integer_unsigned", bitlength |-> bitlength]

boolean == [t |-> "boolean"]

\* Type::to_string.
to_string(type) ==
    IF type.t = "boolean" THEN "bool"
    ELSE IF type.bitlength = 8 THEN "u8"
    ELSE IF type.bitlength = 16 THEN "u16"
    ELSE "u24"

\* An integer literal gets the narrowest unsigned type, of whole bytes, that
\* holds its value.
InferredBitlength(value) ==
    BITLENGTH_BYTE *
        (CHOOSE n \in 1 .. 3 :
            /\ value < Pow2(n * BITLENGTH_BYTE)
            /\ \A m \in 1 .. (n - 1) : value >= Pow2(m * BITLENGTH_BYTE))

TypeOfLiteral(literal) ==
    IF literal.kind = "boolean"
    THEN boolean
    ELSE integer_unsigned(InferredBitlength(literal.value))

\* The conditional of the entry point, each literal with the location the
\* lexer gives it: the `if` is written on the given line after `indent`
\* spaces, as  if <condition> { <main> } else { <else> }.
EntryPoint(line, indent, condition, main, else) ==
    LET condition_column == indent + 4
        main_column == condition_column + TextLength(condition) + 3
        else_column == main_column + TextLength(main) + 10
    IN  [condition |-> [literal |-> condition,
                        location |-> Location(line, condition_column)],
         main |-> [literal |-> main, location |-> Location(line, main_column)],
         else |-> [literal |-> else, location |-> Location(line, else_column)]]

NoProgram == [none |-> TRUE]

NotCompiled == [tag |-> "Pending"]

ConditionalBranchTypesMismatch(location, expected, found, reference) ==
    [tag |-> "Err", error |-> "Semantic",
     kind |-> "ConditionalBranchTypesMismatch",
     location |-> location, expected |-> expected,
     found |-> found, reference |-> reference]

\* The analysis, with the two branches taken the wrong way round.
ConditionalExpressionElseFirst(conditional) ==
    LET main_type == TypeOfLiteral(conditional.main.literal)
        else_type == TypeOfLiteral(conditional.else.literal)
    IN  IF main_type # else_type
        THEN ConditionalBranchTypesMismatch(
                 conditional.else.location, to_string(else_type),
                 to_string(main_type), conditional.main.location)
        ELSE [tag |-> "Ok", type |-> main_type]

\* The analysis of a conditional expression: both branches are typed, and
\* the else branch must have the type of the main branch.
ConditionalExpression(conditional) ==
    LET main_type == TypeOfLiteral(conditional.main.literal)
        else_type == TypeOfLiteral(conditional.else.literal)
    IN  IF main_type # else_type
        THEN ConditionalBranchTypesMismatch(
                 conditional.main.location, to_string(main_type),
                 to_string(else_type), conditional.else.location)
        ELSE [tag |-> "Ok", type |-> main_type]

\* The analyzer at rest, while another part of the toolchain runs.
IdleSemantic ==
    /\ program = NoProgram
    /\ compiled = NotCompiled

InitSemantic ==
    /\ \E line \in {3, 4} : \E indent \in {0, 4} :
       \E condition \in {LiteralBoolean(TRUE), LiteralBoolean(FALSE)} :
       \E main \in Literals : \E else \in Literals :
           program = EntryPoint(line, indent, condition, main, else)
    /\ compiled = NotCompiled

\* compile_entry_point(input).
CompileEntryPoint ==
    /\ compiled = NotCompiled
    /\ compiled' = ConditionalExpression(program)
    /\ UNCHANGED <<program, vmVars, valueVars, letVars>>

NextSemantic == CompileEntryPoint

(***************************************************************************)
(* The specifications, one for each part.                                  *)
(***************************************************************************)
Init == InitVM /\ IdleValue /\ IdleLet /\ IdleSemantic

Next == NextVM

Spec == Init /\ [][Next]_vars

InitOfValue == IdleVM /\ InitValue /\ IdleLet /\ IdleSemantic

SpecValue == InitOfValue /\ [][NextValue]_vars

InitOfLet == IdleVM /\ IdleValue /\ InitLet /\ IdleSemantic

SpecLet == InitOfLet /\ [][NextLet]_vars

InitOfSemantic == IdleVM /\ IdleValue /\ IdleLet /\ InitSemantic

SpecSemantic == InitOfSemantic /\ [][NextSemantic]_vars

(***************************************************************************)
(* Properties of the let statement parser.                                 *)
(***************************************************************************)
\* The lexeme of the i-th token of the input.
Lex(i) == stream[i].lexeme

IsIdentifier(i) == Lex(i).kind = "Identifier"

\* The input read is `let` [`mut`] identifier [`:` type] `=` expression `;`
\* and nothing more; m = 1 with `mut`, t = 2 with `: type`.
LetGrammar(m, t) ==
    /\ Len(stream) = 5 + m + t
    /\ Lex(1) = LexLet
    /\ m = 1 => Lex(2) = LexMut
    /\ IsIdentifier(2 + m)
    /\ t = 2 => (Lex(3 + m) = LexColon /\ Lex(4 + m) = LexType)
    /\ Lex(3 + m + t) = LexEquals
    /\ IsOperand(Lex(4 + m + t))
    /\ Lex(5 + m + t) = LexSemicolon

\* The statement that input stands for.
LetStatementOf(m, t) ==
    [location |-> stream[1].location,
     identifier |-> Identifier(stream[2 + m].location, Lex(2 + m).text),
     is_mutable |-> (m = 1),
     type |-> IF t = 2 THEN Some(Type(stream[4 + m].location, Lex(4 + m).text))
              ELSE None,
     expression |-> Expression(stream[4 + m + t].location, Lex(4 + m + t))]

\* C9: the parser accepts exactly `let` [`mut`] identifier [`:` type] `=`
\* expression `;` and then returns the statement with the location of
\* `let`, the identifier with its location, the mutable flag set iff `mut`
\* was there, the type iff `: type` was there, the expression, and no
\* leftover token.
C9_LetStatementAccepted ==
    /\ outcome.tag = "Ok" =>
           \E m \in {0, 1} : \E t \in {0, 2} :
               /\ LetGrammar(m, t)
               /\ outcome = OkStatement(LetStatementOf(m, t), None)
    /\ (outcome # Pending /\ \E m \in {0, 1} : \E t \in {0, 2} : LetGrammar(m, t)) =>
           outcome.tag = "Ok"

C9_Witness ==
    /\ outcome.tag = "Ok"
    /\ LetGrammar(1, 2)
    /\ outcome.statement.is_mutable
    /\ outcome.statement.type.some
    /\ outcome.statement.identifier = Identifier(3, "b")
    /\ outcome.leftover = None

\* The parser has stopped at the i-th token with the error of the given
\* constructor and hint, naming that token's lexeme and location.
StoppedAt(i, constructor, hint) ==
    /\ Len(stream) = i
    /\ outcome = SyntaxError(constructor, stream[i].location, <<>>, Lex(i), Some(hint))

\* The input starts with `let` [`mut`] identifier, the identifier at p.
LetHead(p) ==
    /\ Len(stream) >= p
    /\ Lex(1) = LexLet
    /\ p = 3 => Lex(2) = LexMut
    /\ IsIdentifier(p)

\* The i-th token has been read and is a token, not an error of the lexer.
TokenAt(i) == Len(stream) >= i /\ Lex(i) # LexInvalid

\* The state each of the four errors is returned from.
StateOfError ==
    [expected_mut_or_identifier |-> "MutOrIdentifier",
     expected_identifier |-> "Identifier",
     expected_type_or_value |-> "ColonOrEquals",
     expected_value |-> "Equals"]

\* C10: the parser stops at the first token that does not fit and reports
\* that token's lexeme and location: after `let` anything but `mut` or an
\* identifier gives expected_mut_or_identifier, after `let mut` anything but
\* an identifier gives expected_identifier (both with the identifier hint),
\* after the identifier anything but `:` or `=` gives
\* expected_type_or_value and after the type anything but `=` gives
\* expected_value (both with the initialization hint).
C10_ErrorByState ==
    /\ (TokenAt(2) /\ Lex(1) = LexLet /\ Lex(2) # LexMut /\ ~IsIdentifier(2)) =>
           StoppedAt(2, "expected_mut_or_identifier", HINT_EXPECTED_IDENTIFIER)
    /\ (TokenAt(3) /\ Lex(1) = LexLet /\ Lex(2) = LexMut /\ ~IsIdentifier(3)) =>
           StoppedAt(3, "expected_identifier", HINT_EXPECTED_IDENTIFIER)
    /\ \A p \in {2, 3} :
           /\ (LetHead(p) /\ TokenAt(p + 1) /\ Lex(p + 1) \notin {LexColon, LexEquals}) =>
                  StoppedAt(p + 1, "expected_type_or_value", HINT_EXPECTED_VALUE)
           /\ (/\ LetHead(p) /\ TokenAt(p + 3)
               /\ Lex(p + 1) = LexColon /\ Lex(p + 2) = LexType
               /\ Lex(p + 3) # LexEquals) =>
                  \/ StoppedAt(p + 3, "expected_value", HINT_EXPECTED_VALUE)
                  \/ /\ outcome = Pending
                     /\ state = "Equals"
                     /\ next = Some(stream[p + 3])
                     /\ Len(stream) = p + 3
    /\ (/\ outcome.tag = "Err"
        /\ outcome.error = "Syntax"
        /\ outcome.constructor \in DOMAIN StateOfError) =>
           /\ state = StateOfError[outcome.constructor]
           /\ outcome.location = stream[Len(stream)].location
           /\ outcome.found = Lex(Len(stream))

C10_Witness ==
    /\ LetHead(2)
    /\ Len(stream) = 5
    /\ Lex(5) = LexSemicolon
    /\ StoppedAt(5, "expected_value", HINT_EXPECTED_VALUE)
    /\ state = "Equals"

\* C11: a let statement whose expression is not followed by `;` is rejected
\* with the error built by expected_one_of, with `;` as the only expected
\* symbol, the lexeme found and its location, and no hint.
C11_ExpectedSemicolon ==
    (/\ state = "Semicolon"
     /\ outcome.tag = "Err"
     /\ Lex(Len(stream)) \notin {LexInvalid, LexSemicolon}) =>
        outcome = SyntaxError("expected_one_of", stream[Len(stream)].location,
                              <<";">>, Lex(Len(stream)), None)

WritesTo(a) == Cardinality({n \in 1 .. Len(last.writes) : last.writes[n] = a})

SequenceRange == last.address .. (last.address + last.len - 1)

\* C13: StoreSequence(address, len) writes only addresses in
\* address..address+len-1, no address twice and, when it completes, each of
\* them exactly once; every other memory cell keeps its contents; no write
\* index address+len-i-1 is below address; and with len = 0 the stack and
\* the memory are left unchanged.
C13_StoreSequenceFrame ==
    last.op = "StoreSequence" =>
        /\ \A n \in 1 .. Len(last.writes) :
               /\ last.writes[n] \in SequenceRange
               /\ last.writes[n] >= last.address
               /\ last.writes[n] = last.address + last.len - (n - 1) - 1
        /\ \A a \in SequenceRange : WritesTo(a) <= 1
        /\ status = "Running" => \A a \in SequenceRange : WritesTo(a) = 1
        /\ \A a \in Addresses \ SequenceRange : memory[a] = last.memory0[a]
        /\ \A a \in Addresses : WritesTo(a) = 0 => memory[a] = last.memory0[a]
        /\ last.len = 0 => (stack = last.stack0 /\ memory = last.memory0)

\* A completed sequence that overwrites one cell, next to a cell that
\* held a value before and keeps it.
C13_Witness ==
    /\ last.op = "StoreSequence"
    /\ status = "Running"
    /\ last.len = 1
    /\ \E a \in Addresses \ SequenceRange :
           last.memory0[a] # Absent /\ memory[a] = last.memory0[a]
    /\ memory[last.address] # last.memory0[last.address]

\* A sequence of length 0 executed over a used stack and a used memory.
C13_WitnessEmpty ==
    /\ last.op = "StoreSequence"
    /\ last.len = 0
    /\ last.stack0 # <<>>
    /\ \E a \in Addresses : last.memory0[a] # Absent

\* C14: StoreSequence(address, len) on a stack of only k < len values
\* returns the error of the failing pop and is not rolled back: the stack is
\* empty, the k popped values lie at address+len-1 down to address+len-k, and
\* the addresses address..address+len-k-1 keep their previous contents.
C14_StoreSequenceUnderflow ==
    (last.op = "StoreSequence" /\ Depth0 < last.len) =>
        /\ status = "StackUnderflow"
        /\ stack = <<>>
        /\ Len(last.writes) = Depth0
        /\ \A i \in 0 .. (Depth0 - 1) :
               /\ last.writes[i + 1] = last.address + last.len - 1 - i
               /\ memory[last.address + last.len - 1 - i] = Popped(i)
        /\ \A a \in last.address .. (last.address + last.len - Depth0 - 1) :
               memory[a] = last.memory0[a]

\* One value on the stack for a sequence of two: the value is written over
\* the upper cell, and the lower cell keeps the value it held.
C14_Witness ==
    /\ last.op = "StoreSequence"
    /\ last.len = 2
    /\ Depth0 = 1
    /\ status = "StackUnderflow"
    /\ last.memory0[last.address] # Absent
    /\ memory[last.address + 1] = Popped(0)
    /\ memory[last.address + 1] # last.memory0[last.address + 1]

(***************************************************************************)
(* Further properties of the let statement parser.                         *)
(***************************************************************************)
\* The order of the states of the parser.
StateOrder ==
    [KeywordLet |-> 1, MutOrIdentifier |-> 2, Identifier |-> 3,
     ColonOrEquals |-> 4, Type |-> 5, Equals |-> 6, Expression |-> 7,
     Semicolon |-> 8]

\* An iteration of the loop returns, or else leaves the parser in a later
\* state, only Identifier, Type and Equals being stepped over.
Forward ==
    \/ outcome' # Pending
    \/ /\ StateOrder[state'] > StateOrder[state]
       /\ \A s \in DOMAIN StateOrder :
              (StateOrder[state] < StateOrder[s] /\ StateOrder[s] < StateOrder[state'])
                  => s \in {"Identifier", "Type", "Equals"}

\* C15: the parser terminates: while it has not returned, an iteration of
\* the loop is possible, and every iteration returns or moves the state
\* strictly forward in the order KeywordLet .. Semicolon (so no state is
\* entered twice); the Expression state is entered only by consuming an `=`
\* token; and Ok is returned only from the Semicolon state.
C15_Termination ==
    /\ [](outcome = Pending => ENABLED NextLet)
    /\ [][Forward]_vars
    /\ [][(state' = "Expression" /\ state # "Expression") =>
              (/\ stream'[Len(stream')].lexeme = LexEquals
               /\ next' = None)]_vars
    /\ [](outcome.tag = "Ok" => state = "Semicolon")
    /\ [][(outcome'.tag = "Ok" /\ outcome = Pending) => state = "Semicolon"]_vars

\* The parser has returned Ok on `let a = 42;`: Identifier, Type and Equals
\* were stepped over.
C15_Witness ==
    /\ outcome.tag = "Ok"
    /\ state = "Semicolon"
    /\ LetGrammar(0, 0)

\* The token the parser holds without having matched it: the caller's
\* initial token or the lookahead a sub-parser handed back.
Held ==
    IF initial.some THEN <<initial.value>>
    ELSE IF next.some THEN <<next.value>>
    ELSE <<>>

\* C16: the parser neither drops nor re-reads a token: the tokens matched,
\* followed by the one held, are the tokens read, in order; the caller's
\* initial token is held only in the KeywordLet state and is taken there in
\* place of a read of the stream; a lookahead handed back by a sub-parser is
\* held only in the Equals or the Semicolon state and is the token that
\* state matches next, with nothing read from the stream; and whenever a
\* sub-parser is started the lookahead slot is empty.
C16_NoTokenLost ==
    /\ [](examined \o Held = stream)
    /\ [](initial.some => (state = "KeywordLet" /\ next = None))
    /\ [][initial.some =>
              (/\ state = "KeywordLet"
               /\ stream' = stream
               /\ initial' = None
               /\ examined' = <<initial.value>>)]_vars
    /\ [](next.some => (state \in {"Equals", "Semicolon"} /\ outcome = Pending))
    /\ [][next.some =>
              (/\ stream' = stream
               /\ next' = None
               /\ examined' = Append(examined, next.value))]_vars
    /\ []((state \in {"Type", "Expression"} /\ outcome = Pending) => next = None)

\* The type parser's lookahead `=` was matched by the Equals state, and the
\* expression parser has handed back `;`, which the Semicolon state holds.
C16_Witness ==
    /\ state = "Semicolon"
    /\ outcome = Pending
    /\ next = Some(Token(LexSemicolon, Len(stream)))
    /\ builder.type.some
    /\ examined = SubSeq(stream, 1, Len(stream) - 1)
    /\ Lex(1) = LexLet

(***************************************************************************)
(* Further properties of the value algebra.                                *)
(***************************************************************************)
\* C17: type identity of values is reflexive: for every value v of any
\* variant, v.has_the_same_type_as(v) is true.
C17_TypeIdentityReflexive ==
    (call.operation = "has_the_same_type_as" /\ call.self = call.other) =>
        result = Ok(TRUE)

====
